---------------------------- MODULE Spec2Model ----------------------------
(***************************************************************************)
(* A model of src/FuelMap.cpp: the FuelMap lookup table (axis search and   *)
(* bilinear interpolation), the two AFR correction stages, the Injector    *)
(* and FuelController::computePulseWidth.                                  *)
(*                                                                         *)
(* A C++ double is modelled as a binary floating-point number with a       *)
(* significand of Precision bits (the source's double has 53), rounded to  *)
(* nearest, ties to even, after every operation, with an unbounded         *)
(* exponent.  A value is a pair <<n, d>> of integers:                      *)
(*    d > 0, n # 0   the finite value n/d, in lowest terms                 *)
(*    <<0, 1>>       +0.0            <<0, -1>>   -0.0                      *)
(*    <<1, 0>>       +infinity       <<-1, 0>>   -infinity                 *)
(*    <<0, 0>>       NaN                                                   *)
(* dAdd, dSub, dMul, dDiv follow IEEE-754: the exact result, then fl.     *)
(*                                                                         *)
(* Arrays are 0-based in the source and 1-based sequences here; At(a, i)   *)
(* reads a[i] of the source.                                               *)
(***************************************************************************)
EXTENDS Integers, Sequences, FiniteSets

VARIABLES
    supplied,   \* the caller's arrays and injector flow handed to the constructors
    fuelMap,    \* the FuelMap object: NoObject, or [rpmAxis, loadAxis, afrTable]
    injector,   \* the Injector object: NoObject, or [flowRate]
    exc,        \* per thread of control, the exception its last call raised
    pc,         \* per caller, its position in the call it runs
    frame,      \* per caller, the call's name and arguments (the EngineState)
    afr,        \* per caller, the local variable afr of getFinalAFR / computePulseWidth
    ret,        \* per caller, the value its last call returned
    loc         \* a direct application of lowerIndex: [axis, size, value, index]

vars == <<supplied, fuelMap, injector, exc, pc, frame, afr, ret, loc>>

(***************************************************************************)
(* double arithmetic                                                       *)
(***************************************************************************)
Abs(i) == IF i < 0 THEN -i ELSE i

RECURSIVE GCD(_, _)
GCD(a, b) == IF b = 0 THEN a ELSE GCD(b, a % b)

NaN == <<0, 0>>
Inf(s) == <<s, 0>>
Zero(s) == <<0, s>>

IsNaN(x) == x = NaN
IsInf(x) == x[2] = 0 /\ x[1] # 0
IsZero(x) == x[1] = 0 /\ x[2] # 0
IsFinite(x) == x[2] # 0

\* the sign bit as +1 / -1 (0 for NaN)
Sgn(x) == IF x[1] > 0 THEN 1 ELSE IF x[1] < 0 THEN -1 ELSE x[2]

\* n/d for d > 0, in lowest terms
Norm(n, d) ==
    IF n = 0 THEN Zero(1)
    ELSE LET g == GCD(Abs(n), d) IN <<n \div g, d \div g>>

\* the number of significand bits (53 in a double)
Precision == 8

RECURSIVE Pow2(_)
Pow2(k) == IF k = 0 THEN 1 ELSE 2 * Pow2(k - 1)

\* a significand m satisfies MinSig <= m < MaxSig
MaxSig == Pow2(Precision)
MinSig == Pow2(Precision - 1)

\* n/d (n >= 0, d > 0) rounded to the nearest integer, ties to even
RoundQuot(n, d) ==
    LET q == n \div d
        r == n % d
    IN  IF 2 * r > d THEN q + 1
        ELSE IF 2 * r < d THEN q
        ELSE IF q % 2 = 0 THEN q ELSE q + 1

\* n/d (n > 0, d > 0) rounded to Precision significant bits, as a pair in
\* lowest terms
RECURSIVE RoundPos(_, _)
RoundPos(n, d) ==
    IF n >= MaxSig * d
    THEN LET h == RoundPos(n, 2 * d) IN Norm(2 * h[1], h[2])
    ELSE IF n < MinSig * d
    THEN LET h == RoundPos(2 * n, d) IN Norm(h[1], 2 * h[2])
    ELSE <<RoundQuot(n, d), 1>>

\* the rounding of an exact result to a double
fl(x) ==
    IF x[2] = 0 \/ x[1] = 0 THEN x
    ELSE LET h == RoundPos(Abs(x[1]), x[2])
         IN  IF x[1] < 0 THEN <<-h[1], h[2]>> ELSE h

\* a literal such as 1.3 == Rat(13, 10): the nearest double
Rat(n, d) == fl(Norm(n, d))

\* double(i) for an int i
FromInt(i) == fl(<<i, 1>>)

dNeg(x) ==
    IF IsNaN(x) THEN NaN
    ELSE IF x[1] = 0 THEN <<0, -x[2]>>
    ELSE <<-x[1], x[2]>>

\* the exact sum, product and quotient, with the IEEE-754 special cases
xAdd(x, y) ==
    IF IsNaN(x) \/ IsNaN(y) THEN NaN
    ELSE IF IsInf(x) /\ IsInf(y) THEN (IF x = y THEN x ELSE NaN)
    ELSE IF IsInf(x) THEN x
    ELSE IF IsInf(y) THEN y
    ELSE IF x[1] = 0 /\ y[1] = 0 THEN (IF x[2] < 0 /\ y[2] < 0 THEN Zero(-1) ELSE Zero(1))
    ELSE LET dx == Abs(x[2])
             dy == Abs(y[2])
             g == GCD(dx, dy)
         IN  Norm(x[1] * (dy \div g) + y[1] * (dx \div g), dx * (dy \div g))

xMul(x, y) ==
    IF IsNaN(x) \/ IsNaN(y) THEN NaN
    ELSE IF IsInf(x) \/ IsInf(y)
         THEN (IF IsZero(x) \/ IsZero(y) THEN NaN ELSE Inf(Sgn(x) * Sgn(y)))
    ELSE IF x[1] = 0 \/ y[1] = 0 THEN Zero(Sgn(x) * Sgn(y))
    ELSE LET g1 == GCD(Abs(x[1]), y[2])
             g2 == GCD(Abs(y[1]), x[2])
         IN  <<(x[1] \div g1) * (y[1] \div g2), (x[2] \div g2) * (y[2] \div g1)>>

xDiv(x, y) ==
    IF IsNaN(x) \/ IsNaN(y) THEN NaN
    ELSE IF IsInf(x) THEN (IF IsInf(y) THEN NaN ELSE Inf(Sgn(x) * Sgn(y)))
    ELSE IF IsInf(y) THEN Zero(Sgn(x) * Sgn(y))
    ELSE IF IsZero(y) THEN (IF IsZero(x) THEN NaN ELSE Inf(Sgn(x) * Sgn(y)))
    ELSE IF IsZero(x) THEN Zero(Sgn(x) * Sgn(y))
    ELSE xMul(x, <<Sgn(y) * y[2], Abs(y[1])>>)

dAdd(x, y) == fl(xAdd(x, y))

dSub(x, y) == fl(xAdd(x, dNeg(y)))

dMul(x, y) == fl(xMul(x, y))

dDiv(x, y) == fl(xDiv(x, y))

\* x <= y, x < y, x >= y: false when either side is NaN; +0.0 and -0.0 compare equal
dLe(x, y) ==
    /\ ~IsNaN(x)
    /\ ~IsNaN(y)
    /\ IF IsInf(x) THEN (x[1] < 0 \/ y = x)
       ELSE IF IsInf(y) THEN y[1] > 0
       ELSE x[1] * Abs(y[2]) <= y[1] * Abs(x[2])

dLt(x, y) == ~IsNaN(x) /\ ~IsNaN(y) /\ ~dLe(y, x)

dGe(x, y) == dLe(y, x)

(***************************************************************************)
(* compile-time constants                                                  *)
(***************************************************************************)
RPM_POINTS == 6

LOAD_POINTS == 5

TABLE_SIZE == RPM_POINTS * LOAD_POINTS

NoObject == [none |-> TRUE]

At(a, i) == a[i + 1]

(***************************************************************************)
(* FuelMap::lowerIndex                                                     *)
(***************************************************************************)
\* the for loop of lowerIndex from i on; the return 0 after it
RECURSIVE lowerIndexLoop(_, _, _, _)
lowerIndexLoop(axis, size, value, i) ==
    IF ~(i < size - 1) THEN 0
    ELSE IF value >= At(axis, i) /\ value <= At(axis, i + 1) THEN i
    ELSE lowerIndexLoop(axis, size, value, i + 1)

\* mutant: the high clamp returns the last breakpoint's index
lowerIndex_ClampLast(axis, size, value) ==
    IF value <= At(axis, 0) THEN 0
    ELSE IF value >= At(axis, size - 1) THEN size - 1
    ELSE lowerIndexLoop(axis, size, value, 0)

\* mutant: the scan takes the intervals half-open, [axis[i], axis[i+1])
RECURSIVE lowerIndexLoop_HalfOpen(_, _, _, _)
lowerIndexLoop_HalfOpen(axis, size, value, i) ==
    IF ~(i < size - 1) THEN 0
    ELSE IF value >= At(axis, i) /\ value < At(axis, i + 1) THEN i
    ELSE lowerIndexLoop_HalfOpen(axis, size, value, i + 1)

lowerIndex_HalfOpen(axis, size, value) ==
    IF value <= At(axis, 0) THEN 0
    ELSE IF value >= At(axis, size - 1) THEN size - 2
    ELSE lowerIndexLoop_HalfOpen(axis, size, value, 0)

lowerIndex(axis, size, value) ==
    IF value <= At(axis, 0) THEN 0
    ELSE IF value >= At(axis, size - 1) THEN size - 2
    ELSE lowerIndexLoop(axis, size, value, 0)

(***************************************************************************)
(* FuelMap: interpolation and the correction stages                        *)
(***************************************************************************)
\* mutant: the slope term takes b for b - a
lerp_NoDifference(a, b, t) == dAdd(a, dMul(t, b))

lerp(a, b, t) == dAdd(a, dMul(t, dSub(b, a)))

\* mutant: the table taken column-major
index_Transposed(loadIndex, rpmIndex) == rpmIndex * LOAD_POINTS + loadIndex

index(loadIndex, rpmIndex) == loadIndex * RPM_POINTS + rpmIndex

applyColdStartEnrichment(a, coolantTempC) ==
    IF dGe(coolantTempC, FromInt(90)) THEN a
    ELSE LET factor == dSub(Rat(13, 10),
                            dMul(dDiv(coolantTempC, FromInt(90)), Rat(3, 10)))
         IN  dMul(a, factor)

applyClosedLoopCorrection(a, measuredAFR) ==
    LET error == dSub(a, measuredAFR)
        correctionFactor == dSub(FromInt(1), dMul(Rat(1, 10), error))
    IN  dMul(a, correctionFactor)

\* the locals rT and lT of targetAFR
rT(fm, rpm) ==
    LET r == lowerIndex(fm.rpmAxis, RPM_POINTS, rpm)
    IN  dDiv(FromInt(rpm - At(fm.rpmAxis, r)),
             FromInt(At(fm.rpmAxis, r + 1) - At(fm.rpmAxis, r)))

lT(fm, load) ==
    LET l == lowerIndex(fm.loadAxis, LOAD_POINTS, load)
    IN  dDiv(FromInt(load - At(fm.loadAxis, l)),
             FromInt(At(fm.loadAxis, l + 1) - At(fm.loadAxis, l)))

targetAFR(fm, rpm, load) ==
    LET r == lowerIndex(fm.rpmAxis, RPM_POINTS, rpm)
        l == lowerIndex(fm.loadAxis, LOAD_POINTS, load)
        q11 == At(fm.afrTable, index(l, r))
        q12 == At(fm.afrTable, index(l, r + 1))
        q21 == At(fm.afrTable, index(l + 1, r))
        q22 == At(fm.afrTable, index(l + 1, r + 1))
        r1 == lerp(q11, q12, rT(fm, rpm))
        r2 == lerp(q21, q22, rT(fm, rpm))
    IN  lerp(r1, r2, lT(fm, load))

\* Injector::pulseWidth
pulseWidth(inj, fuelMass) == dDiv(fuelMass, inj.flowRate)

(***************************************************************************)
(* The inputs: what a caller hands to the constructors and to the calls    *)
(***************************************************************************)
\* the table of main(), in tenths
MainTenths ==
    << 147, 147, 147, 147, 147, 147,
       143, 141, 139, 137, 136, 136,
       136, 133, 130, 128, 128, 128,
       129, 126, 123, 120, 120, 120,
       122, 120, 118, 116, 115, 115 >>

MainTable == [i \in 1..TABLE_SIZE |-> Rat(MainTenths[i], 10)]

\* a table whose cells are pairwise different, not monotone along a row, and
\* next to cells more than twice or less than half as large: 0.3, 0.6 .. 9.0
WideTable == [i \in 1..TABLE_SIZE |-> Rat(3 + 3 * ((7 * i) % TABLE_SIZE), 10)]

\* a table one cell short of TABLE_SIZE
ShortTable == SubSeq(MainTable, 1, TABLE_SIZE - 1)

MaxRpmQuery == 9

MaxLoadQuery == 8

RpmAxisOK == <<1, 3, 4, 5, 6, 8>>
RpmAxisDupLow == <<1, 1, 4, 5, 6, 8>>
RpmAxisDupHigh == <<1, 3, 4, 5, 8, 8>>
LoadAxisOK == <<1, 2, 4, 6, 7>>
LoadAxisDupHigh == <<1, 2, 4, 7, 7>>

\* the injector flow of main(), 0.02 g/ms, and a flow the constructor rejects
MainFlow == Rat(2, 100)
FlowRates == {MainFlow, Zero(1)}

Config(rpm, load, table) == [rpm |-> rpm, load |-> load, table |-> table]

WithFlow(c, flow) == [rpm |-> c.rpm, load |-> c.load, table |-> c.table, flow |-> flow]

FuelMapInputs ==
    { Config(RpmAxisOK, LoadAxisOK, MainTable),
      Config(RpmAxisOK, LoadAxisOK, WideTable),
      Config(RpmAxisOK, LoadAxisOK, ShortTable),
      Config(RpmAxisDupLow, LoadAxisOK, MainTable),
      Config(RpmAxisDupHigh, LoadAxisOK, WideTable),
      Config(RpmAxisOK, LoadAxisDupHigh, MainTable) }

Inputs == {WithFlow(c, f) : c \in FuelMapInputs, f \in FlowRates}

\* what an out-of-bounds read of the caller's table may yield
Garbage == {Zero(1), FromInt(-3)}

RpmQueries == 0..MaxRpmQuery
LoadQueries == 0..MaxLoadQuery
CoolantTemps == {FromInt(20), FromInt(90), FromInt(100)}
MeasuredAFRs == {FromInt(14), Rat(47, 10)}
AirMasses == {Rat(45, 100), Zero(1)}

StrictlyIncreasing(axis) == \A i \in 1..(Len(axis) - 1) : axis[i] < axis[i + 1]

\* the construction contract: table size and strictly increasing axes
ValidInput(c) ==
    /\ Len(c.table) = Len(c.rpm) * Len(c.load)
    /\ StrictlyIncreasing(c.rpm)
    /\ StrictlyIncreasing(c.load)

NoValue == <<>>
NoFrame == [op |-> "none", rpm |-> 0, map |-> 0, airMass |-> NoValue,
            coolantTempC |-> NoValue, measuredAFR |-> NoValue]

Callers == DOMAIN pc

(***************************************************************************)
(* Construction                                                            *)
(***************************************************************************)
\* FuelMap::FuelMap: keeps the axis pointers and copies TABLE_SIZE cells. It
\* checks nothing; a read past the end of a shorter table is undefined: it
\* yields whatever lies there, or the process faults.
FuelMapCtor ==
    /\ fuelMap = NoObject
    /\ exc["main"] = "none"
    /\ \/ /\ \E g \in (IF Len(supplied.table) < TABLE_SIZE THEN Garbage ELSE {NoValue}) :
                fuelMap' = [rpmAxis |-> supplied.rpm,
                            loadAxis |-> supplied.load,
                            afrTable |-> [i \in 1..TABLE_SIZE |->
                                            IF i <= Len(supplied.table)
                                            THEN supplied.table[i] ELSE g]]
          /\ UNCHANGED exc
       \/ /\ Len(supplied.table) < TABLE_SIZE
          /\ exc' = [exc EXCEPT !["main"] = "SIGSEGV"]
          /\ UNCHANGED fuelMap
    /\ UNCHANGED <<supplied, injector, pc, frame, afr, ret, loc>>

\* Injector::Injector
InjectorCtor ==
    /\ injector = NoObject
    /\ exc["main"] = "none"
    /\ IF dLe(supplied.flow, Zero(1))
       THEN /\ exc' = [exc EXCEPT !["main"] = "invalid_argument"]
            /\ UNCHANGED injector
       ELSE /\ injector' = [flowRate |-> supplied.flow]
            /\ UNCHANGED exc
    /\ UNCHANGED <<supplied, fuelMap, pc, frame, afr, ret, loc>>

(***************************************************************************)
(* Calls.  A caller runs one call at a time; the body of getFinalAFR is    *)
(* taken statement by statement, so that callers interleave.               *)
(*   pc = "targetAFR"   about to run targetAFR            (line 132)       *)
(*   pc = "coldStart"   about to run the cold-start stage  (line 133)      *)
(*   pc = "closedLoop"  about to run the closed-loop stage (line 134)      *)
(*   pc = "pulseWidth"  about to run lines 150-151                         *)
(*   pc = "done"        the call has returned ret                          *)
(***************************************************************************)
\* the caller runs no call, and the FuelMap it would call exists
CanCall(t) ==
    /\ pc[t] = "idle"
    /\ exc["main"] = "none"
    /\ fuelMap # NoObject

Enter(t, f) ==
    /\ CanCall(t)
    /\ pc' = [pc EXCEPT ![t] = "targetAFR"]
    /\ frame' = [frame EXCEPT ![t] = f]
    /\ UNCHANGED <<supplied, fuelMap, injector, exc, afr, ret, loc>>

\* a call of FuelMap::targetAFR(rpm, load)
CallTargetAFR(t, rpm, load) ==
    Enter(t, [NoFrame EXCEPT !.op = "targetAFR", !.rpm = rpm, !.map = load])

\* a call of FuelMap::getFinalAFR(rpm, load, coolantTempC, measuredAFR)
CallGetFinalAFR(t, rpm, load, temp, measured) ==
    Enter(t, [NoFrame EXCEPT !.op = "getFinalAFR", !.rpm = rpm, !.map = load,
                             !.coolantTempC = temp, !.measuredAFR = measured])

\* a call of FuelController::computePulseWidth(state): the controller holds a
\* FuelMap and an Injector
CallComputePulseWidth(t, state) ==
    /\ injector # NoObject
    /\ Enter(t, [state EXCEPT !.op = "computePulseWidth"])

EngineStates ==
    [op : {"state"}, rpm : RpmQueries, map : LoadQueries, airMass : AirMasses,
     coolantTempC : CoolantTemps, measuredAFR : MeasuredAFRs]

TargetAFRStep(t) ==
    /\ pc[t] = "targetAFR"
    /\ LET v == targetAFR(fuelMap, frame[t].rpm, frame[t].map)
       IN  IF frame[t].op = "targetAFR"
           THEN /\ ret' = [ret EXCEPT ![t] = v]
                /\ pc' = [pc EXCEPT ![t] = "done"]
                /\ UNCHANGED afr
           ELSE /\ afr' = [afr EXCEPT ![t] = v]
                /\ pc' = [pc EXCEPT ![t] = "coldStart"]
                /\ UNCHANGED ret
    /\ UNCHANGED <<supplied, fuelMap, injector, exc, frame, loc>>

\* mutant: the cold-start stage is skipped
ColdStartStep_Skipped(t) ==
    /\ pc[t] = "coldStart"
    /\ pc' = [pc EXCEPT ![t] = "closedLoop"]
    /\ UNCHANGED <<supplied, fuelMap, injector, exc, frame, afr, ret, loc>>

ColdStartStep(t) ==
    /\ pc[t] = "coldStart"
    /\ afr' = [afr EXCEPT ![t] = applyColdStartEnrichment(afr[t], frame[t].coolantTempC)]
    /\ pc' = [pc EXCEPT ![t] = "closedLoop"]
    /\ UNCHANGED <<supplied, fuelMap, injector, exc, frame, ret, loc>>

\* mutant: the closed-loop stage learns, storing the corrected AFR in the table
ClosedLoopStep_Adaptive(t) ==
    /\ pc[t] = "closedLoop"
    /\ LET v == applyClosedLoopCorrection(afr[t], frame[t].measuredAFR)
           r == lowerIndex(fuelMap.rpmAxis, RPM_POINTS, frame[t].rpm)
           l == lowerIndex(fuelMap.loadAxis, LOAD_POINTS, frame[t].map)
       IN  /\ afr' = [afr EXCEPT ![t] = v]
           /\ fuelMap' = [fuelMap EXCEPT !.afrTable[index(l, r) + 1] = v]
           /\ IF frame[t].op = "getFinalAFR"
              THEN /\ ret' = [ret EXCEPT ![t] = v]
                   /\ pc' = [pc EXCEPT ![t] = "done"]
              ELSE /\ pc' = [pc EXCEPT ![t] = "pulseWidth"]
                   /\ UNCHANGED ret
    /\ UNCHANGED <<supplied, injector, exc, frame, loc>>

ClosedLoopStep(t) ==
    /\ pc[t] = "closedLoop"
    /\ LET v == applyClosedLoopCorrection(afr[t], frame[t].measuredAFR)
       IN  /\ afr' = [afr EXCEPT ![t] = v]
           /\ IF frame[t].op = "getFinalAFR"
              THEN /\ ret' = [ret EXCEPT ![t] = v]
                   /\ pc' = [pc EXCEPT ![t] = "done"]
              ELSE /\ pc' = [pc EXCEPT ![t] = "pulseWidth"]
                   /\ UNCHANGED ret
    /\ UNCHANGED <<supplied, fuelMap, injector, exc, frame, loc>>

\* lines 150-151: no test of afr precedes the division
PulseWidthStep(t) ==
    /\ pc[t] = "pulseWidth"
    /\ LET fuelMass == dDiv(frame[t].airMass, afr[t])
       IN  ret' = [ret EXCEPT ![t] = pulseWidth(injector, fuelMass)]
    /\ pc' = [pc EXCEPT ![t] = "done"]
    /\ UNCHANGED <<supplied, fuelMap, injector, exc, frame, afr, loc>>

\* the caller takes the result; the call's locals are gone
Return(t) ==
    /\ pc[t] = "done"
    /\ pc' = [pc EXCEPT ![t] = "idle"]
    /\ frame' = [frame EXCEPT ![t] = NoFrame]
    /\ afr' = [afr EXCEPT ![t] = NoValue]
    /\ ret' = [ret EXCEPT ![t] = NoValue]
    /\ UNCHANGED <<supplied, fuelMap, injector, exc, loc>>

(***************************************************************************)
(* Spec: one caller, every query of the bounded ranges                     *)
(***************************************************************************)
NoLoc == [axis |-> <<>>, size |-> 0, value |-> 0, applied |-> FALSE, index |-> 0]

InitFor(callers) ==
    /\ supplied \in Inputs
    /\ fuelMap = NoObject
    /\ injector = NoObject
    /\ exc = [p \in callers \cup {"main"} |-> "none"]
    /\ pc = [t \in callers |-> "idle"]
    /\ frame = [t \in callers |-> NoFrame]
    /\ afr = [t \in callers |-> NoValue]
    /\ ret = [t \in callers |-> NoValue]
    /\ loc = NoLoc

Init == InitFor({"c1"})

Next ==
    \/ FuelMapCtor
    \/ InjectorCtor
    \/ \E t \in Callers :
          /\ CanCall(t)
          /\ \E rpm \in RpmQueries, load \in LoadQueries : CallTargetAFR(t, rpm, load)
    \/ \E t \in Callers :
          /\ CanCall(t)
          /\ \E rpm \in RpmQueries, load \in LoadQueries,
                temp \in CoolantTemps, measured \in MeasuredAFRs :
                CallGetFinalAFR(t, rpm, load, temp, measured)
    \/ \E t \in Callers :
          /\ CanCall(t)
          /\ \E state \in EngineStates : CallComputePulseWidth(t, state)
    \/ \E t \in Callers : TargetAFRStep(t)
    \/ \E t \in Callers : ColdStartStep(t)
    \/ \E t \in Callers : ClosedLoopStep(t)
    \/ \E t \in Callers : PulseWidthStep(t)
    \/ \E t \in Callers : Return(t)

Spec == Init /\ [][Next]_vars

(***************************************************************************)
(* SpecConc: two callers on the same FuelMap and Injector, their steps     *)
(* interleaved, over a few readings                                        *)
(***************************************************************************)
ConcRpm == {2, 5}
ConcLoad == {1}
ConcTemps == {FromInt(20), FromInt(90)}
ConcMeasured == {FromInt(14), Rat(47, 10)}
ConcStates ==
    [op : {"state"}, rpm : ConcRpm, map : ConcLoad, airMass : {Rat(45, 100)},
     coolantTempC : ConcTemps, measuredAFR : ConcMeasured]

InitConc == InitFor({"c1", "c2"})

NextConc ==
    \/ FuelMapCtor
    \/ InjectorCtor
    \/ \E t \in Callers :
          /\ CanCall(t)
          /\ \E rpm \in ConcRpm, load \in ConcLoad : CallTargetAFR(t, rpm, load)
    \/ \E t \in Callers :
          /\ CanCall(t)
          /\ \E rpm \in ConcRpm, load \in ConcLoad,
                temp \in ConcTemps, measured \in ConcMeasured :
                CallGetFinalAFR(t, rpm, load, temp, measured)
    \/ \E t \in Callers :
          /\ CanCall(t)
          /\ \E state \in ConcStates : CallComputePulseWidth(t, state)
    \/ \E t \in Callers : TargetAFRStep(t)
    \/ \E t \in Callers : ColdStartStep(t)
    \/ \E t \in Callers : ClosedLoopStep(t)
    \/ \E t \in Callers : PulseWidthStep(t)
    \/ \E t \in Callers : Return(t)

SpecConc == InitConc /\ [][NextConc]_vars

(***************************************************************************)
(* SpecLocate: lowerIndex applied to every axis over 0..MaxBreak           *)
(***************************************************************************)
MaxBreak == 6

\* the members of the set s in increasing order
RECURSIVE SortedSeq(_)
SortedSeq(s) ==
    IF s = {} THEN <<>>
    ELSE LET m == CHOOSE x \in s : \A y \in s : x <= y
         IN  <<m>> \o SortedSeq(s \ {m})

\* the strictly increasing axes of size >= 2, and axes with a repeated breakpoint
LocateAxes ==
    LET inc == {SortedSeq(s) : s \in {u \in SUBSET (0..MaxBreak) : Cardinality(u) >= 2}}
    IN  inc \cup {<<a[1]>> \o a : a \in inc} \cup {a \o <<a[Len(a)]>> : a \in inc}

LocateValues == (-1)..(MaxBreak + 1)

InitLocate ==
    /\ supplied = WithFlow(Config(RpmAxisOK, LoadAxisOK, MainTable), MainFlow)
    /\ fuelMap = NoObject
    /\ injector = NoObject
    /\ exc = [p \in {"main"} |-> "none"]
    /\ pc = << >>
    /\ frame = << >>
    /\ afr = << >>
    /\ ret = << >>
    /\ \E a \in LocateAxes, v \in LocateValues :
          loc = [axis |-> a, size |-> Len(a), value |-> v, applied |-> FALSE, index |-> 0]

Locate ==
    /\ ~loc.applied
    /\ loc' = [loc EXCEPT !.applied = TRUE,
                          !.index = lowerIndex(loc.axis, loc.size, loc.value)]
    /\ UNCHANGED <<supplied, fuelMap, injector, exc, pc, frame, afr, ret>>

NextLocate == Locate

SpecLocate == InitLocate /\ [][NextLocate]_vars

(***************************************************************************)
(* Properties                                                              *)
(***************************************************************************)
\* the axes of a FuelMap are strictly increasing (the Axis invariant)
WellFormed(fm) == StrictlyIncreasing(fm.rpmAxis) /\ StrictlyIncreasing(fm.loadAxis)

\* the caller has a returned call of the given name
Returned(t, op) == pc[t] = "done" /\ frame[t].op = op

\* targetAFR has run in the caller's current call
PastTargetAFR(t) == pc[t] \in {"coldStart", "closedLoop", "pulseWidth", "done"}

\* the interval targetAFR locates for the query has zero width on an axis
ZeroWidth(fm, rpm, load) ==
    LET r == lowerIndex(fm.rpmAxis, RPM_POINTS, rpm)
        l == lowerIndex(fm.loadAxis, LOAD_POINTS, load)
    IN  \/ At(fm.rpmAxis, r + 1) = At(fm.rpmAxis, r)
        \/ At(fm.loadAxis, l + 1) = At(fm.loadAxis, l)

\* the four cells around the located cell
Corners(fm, rpm, load) ==
    LET r == lowerIndex(fm.rpmAxis, RPM_POINTS, rpm)
        l == lowerIndex(fm.loadAxis, LOAD_POINTS, load)
    IN  { At(fm.afrTable, l * RPM_POINTS + r),
          At(fm.afrTable, l * RPM_POINTS + r + 1),
          At(fm.afrTable, (l + 1) * RPM_POINTS + r),
          At(fm.afrTable, (l + 1) * RPM_POINTS + r + 1) }

InRange(fm, rpm, load) ==
    /\ At(fm.rpmAxis, 0) <= rpm
    /\ rpm <= At(fm.rpmAxis, RPM_POINTS - 1)
    /\ At(fm.loadAxis, 0) <= load
    /\ load <= At(fm.loadAxis, LOAD_POINTS - 1)

\* C1: a table of the wrong size or an axis that is not strictly increasing
\* makes construction fail with InvalidTableShape, and no FuelMap exists.
C1_ConstructionValidates ==
    ~ValidInput(supplied) =>
        /\ fuelMap = NoObject
        /\ exc["main"] \in {"none", "InvalidTableShape"}

\* C2: computePulseWidth never returns a pulse width computed from a corrected
\* AFR <= 0: it signals InvalidAFR / DivisionByZero.
C2_NonPositiveAFRSignalled ==
    \A t \in Callers :
        (Returned(t, "computePulseWidth") /\ dLe(afr[t], Zero(1)))
            => exc[t] \in {"InvalidAFR", "DivisionByZero"}

\* C3: on a strictly increasing axis of size >= 2, lowerIndex returns an index
\* in 0..size-2; the interval encloses a value within the axis range; a value
\* <= axis[0] gives 0 and a value >= axis[size-1] gives size-2.
C3_LowerIndexEncloses ==
    (loc.applied /\ loc.size >= 2 /\ StrictlyIncreasing(loc.axis)) =>
        /\ 0 <= loc.index
        /\ loc.index <= loc.size - 2
        /\ (At(loc.axis, 0) <= loc.value /\ loc.value <= At(loc.axis, loc.size - 1))
              => /\ At(loc.axis, loc.index) <= loc.value
                 /\ loc.value <= At(loc.axis, loc.index + 1)
        /\ loc.value <= At(loc.axis, 0) => loc.index = 0
        /\ loc.value >= At(loc.axis, loc.size - 1) => loc.index = loc.size - 2

\* C3 witness: a value strictly inside an interval that is not the first one
C3_Witness ==
    /\ loc.applied
    /\ loc.size >= 3
    /\ StrictlyIncreasing(loc.axis)
    /\ loc.index > 0
    /\ At(loc.axis, loc.index) < loc.value
    /\ loc.value < At(loc.axis, loc.index + 1)

\* C4 as stated: a value equal to a breakpoint axis[k] gives k, the interval
\* that starts at the breakpoint, for k = 0 and every interior k.
C4_TieStartsInterval ==
    (loc.applied /\ loc.size >= 2 /\ StrictlyIncreasing(loc.axis)) =>
        \A k \in 0..(loc.size - 2) :
            loc.value = At(loc.axis, k) => loc.index = k

\* C4 amended: a value equal to an interior breakpoint axis[k], 0 < k < size-1,
\* gives k-1, the first interval that contains it (the one ending at the
\* breakpoint); axis[0] gives 0 and axis[size-1] gives size-2.
C4_TieEndsInterval ==
    (loc.applied /\ loc.size >= 2 /\ StrictlyIncreasing(loc.axis)) =>
        \A k \in 0..(loc.size - 1) :
            loc.value = At(loc.axis, k) =>
                loc.index = (IF k = 0 THEN 0 ELSE k - 1)

\* C4 witness: the value is an interior breakpoint
C4_Witness ==
    /\ loc.applied
    /\ StrictlyIncreasing(loc.axis)
    /\ \E k \in 1..(loc.size - 2) :
          loc.value = At(loc.axis, k) /\ loc.index = k - 1

\* the cells are positive and the greatest is at most twice the least: every
\* difference b - a of two of them is then exact in floating point
WithinFactorTwo(q) ==
    \A a \in q, b \in q : dLt(Zero(1), a) /\ dLe(b, xMul(<<2, 1>>, a))

\* C5 as stated: at a speed breakpoint rpmAxis[c] and a load breakpoint
\* loadAxis[r] of a FuelMap with strictly increasing axes, targetAFR returns
\* exactly the cell r * cols + c of the table.
C5_BreakpointExact ==
    \A t \in Callers :
        (Returned(t, "targetAFR") /\ WellFormed(fuelMap)) =>
            \A c \in 0..(RPM_POINTS - 1), r \in 0..(LOAD_POINTS - 1) :
                (frame[t].rpm = At(fuelMap.rpmAxis, c) /\ frame[t].map = At(fuelMap.loadAxis, r))
                    => ret[t] = At(fuelMap.afrTable, r * RPM_POINTS + c)

\* C5 amended: the same, wherever the four cells of the located table cell are
\* positive and the greatest is at most twice the least.
C5_BreakpointExactNearCells ==
    \A t \in Callers :
        (Returned(t, "targetAFR") /\ WellFormed(fuelMap)) =>
            \A c \in 0..(RPM_POINTS - 1), r \in 0..(LOAD_POINTS - 1) :
                (/\ frame[t].rpm = At(fuelMap.rpmAxis, c)
                 /\ frame[t].map = At(fuelMap.loadAxis, r)
                 /\ WithinFactorTwo(Corners(fuelMap, frame[t].rpm, frame[t].map)))
                    => ret[t] = At(fuelMap.afrTable, r * RPM_POINTS + c)

\* C5 witness: a returned query at an interior breakpoint of both axes (both
\* fractions are 1), the four cells different and within a factor of two
C5_Witness ==
    \E t \in Callers :
        /\ Returned(t, "targetAFR")
        /\ WellFormed(fuelMap)
        /\ \E c \in 1..(RPM_POINTS - 2), r \in 1..(LOAD_POINTS - 2) :
              /\ frame[t].rpm = At(fuelMap.rpmAxis, c)
              /\ frame[t].map = At(fuelMap.loadAxis, r)
              /\ ret[t] = At(fuelMap.afrTable, r * RPM_POINTS + c)
        /\ rT(fuelMap, frame[t].rpm) = FromInt(1)
        /\ lT(fuelMap, frame[t].map) = FromInt(1)
        /\ Cardinality(Corners(fuelMap, frame[t].rpm, frame[t].map)) = 4
        /\ WithinFactorTwo(Corners(fuelMap, frame[t].rpm, frame[t].map))

\* C6 as stated: for a query within both axis ranges of a FuelMap with strictly
\* increasing axes, both fractions lie in [0,1] and targetAFR lies between the
\* least and the greatest of the four surrounding cells.
C6_InterpolationBounded ==
    \A t \in Callers :
        (/\ Returned(t, "targetAFR")
         /\ WellFormed(fuelMap)
         /\ InRange(fuelMap, frame[t].rpm, frame[t].map)) =>
            LET tx == rT(fuelMap, frame[t].rpm)
                ty == lT(fuelMap, frame[t].map)
                q == Corners(fuelMap, frame[t].rpm, frame[t].map)
            IN  /\ dLe(Zero(1), tx) /\ dLe(tx, FromInt(1))
                /\ dLe(Zero(1), ty) /\ dLe(ty, FromInt(1))
                /\ \E lo \in q : dLe(lo, ret[t])
                /\ \E hi \in q : dLe(ret[t], hi)

\* C6 amended: both fractions lie in [0,1]; targetAFR lies between the least and
\* the greatest of the four surrounding cells when these are positive and the
\* greatest is at most twice the least.
C6_InterpolationBoundedNearCells ==
    \A t \in Callers :
        (/\ Returned(t, "targetAFR")
         /\ WellFormed(fuelMap)
         /\ InRange(fuelMap, frame[t].rpm, frame[t].map)) =>
            LET tx == rT(fuelMap, frame[t].rpm)
                ty == lT(fuelMap, frame[t].map)
                q == Corners(fuelMap, frame[t].rpm, frame[t].map)
            IN  /\ dLe(Zero(1), tx) /\ dLe(tx, FromInt(1))
                /\ dLe(Zero(1), ty) /\ dLe(ty, FromInt(1))
                /\ WithinFactorTwo(q) =>
                      /\ \E lo \in q : dLe(lo, ret[t])
                      /\ \E hi \in q : dLe(ret[t], hi)

\* C6 witness: a query strictly inside a cell whose corners are all different
\* and within a factor of two
C6_Witness ==
    \E t \in Callers :
        /\ Returned(t, "targetAFR")
        /\ WellFormed(fuelMap)
        /\ InRange(fuelMap, frame[t].rpm, frame[t].map)
        /\ dLt(Zero(1), rT(fuelMap, frame[t].rpm))
        /\ dLt(rT(fuelMap, frame[t].rpm), FromInt(1))
        /\ dLt(Zero(1), lT(fuelMap, frame[t].map))
        /\ dLt(lT(fuelMap, frame[t].map), FromInt(1))
        /\ Cardinality(Corners(fuelMap, frame[t].rpm, frame[t].map)) = 4
        /\ WithinFactorTwo(Corners(fuelMap, frame[t].rpm, frame[t].map))

\* C7: the cold-start stage returns a lower AFR than it is given when the AFR
\* is positive and coolantTemp < 90.0, and the same AFR when coolantTemp >= 90.0.
C7_ColdStartLowersAFR ==
    [][\A t \in Callers :
          (pc[t] = "coldStart" /\ pc'[t] = "closedLoop") =>
              IF dLt(frame[t].coolantTempC, FromInt(90))
              THEN dLt(Zero(1), afr[t]) => dLt(afr'[t], afr[t])
              ELSE afr'[t] = afr[t]]_vars

\* C8: when the located interval has zero width on either axis, targetAFR
\* signals AxisDegenerateError.
C8_DegenerateAxisSignalled ==
    \A t \in Callers :
        (PastTargetAFR(t) /\ ZeroWidth(fuelMap, frame[t].rpm, frame[t].map))
            => exc[t] = "AxisDegenerateError"

\* C9: the AFR a call works with is the base AFR after targetAFR, the cold-start
\* stage's output of the base AFR after line 133, and after line 134
\* cold * (1.0 - 0.1 * (cold - measuredAFR)); getFinalAFR returns that, and
\* computePulseWidth returns airMass / that / flowRate.
C9_StageOrder ==
    \A t \in Callers :
        LET base == targetAFR(fuelMap, frame[t].rpm, frame[t].map)
            cold == applyColdStartEnrichment(base, frame[t].coolantTempC)
            error == dSub(cold, frame[t].measuredAFR)
            final == dMul(cold, dSub(FromInt(1), dMul(Rat(1, 10), error)))
        IN  /\ pc[t] = "coldStart" => afr[t] = base
            /\ pc[t] = "closedLoop" => afr[t] = cold
            /\ pc[t] = "pulseWidth" => afr[t] = final
            /\ Returned(t, "getFinalAFR") => ret[t] = final
            /\ Returned(t, "computePulseWidth") =>
                  ret[t] = dDiv(dDiv(frame[t].airMass, final), injector.flowRate)

\* C9 witness: a returned computePulseWidth in which both stages changed the AFR
C9_Witness ==
    \E t \in Callers :
        /\ Returned(t, "computePulseWidth")
        /\ IsFinite(ret[t]) /\ ~IsZero(ret[t])
        /\ LET base == targetAFR(fuelMap, frame[t].rpm, frame[t].map)
               cold == applyColdStartEnrichment(base, frame[t].coolantTempC)
           IN  cold # base /\ afr[t] # cold /\ afr[t] # base

\* C10: no step changes a constructed FuelMap or Injector or the caller's
\* arrays, and two returned calls with the same name and arguments hold the
\* same result, whatever the other caller ran before or in between.
C10_NoSharedState ==
    /\ [][/\ fuelMap # NoObject => fuelMap' = fuelMap
          /\ injector # NoObject => injector' = injector
          /\ supplied' = supplied]_vars
    /\ [](\A t1, t2 \in Callers :
            (pc[t1] = "done" /\ pc[t2] = "done" /\ frame[t1] = frame[t2])
                => ret[t1] = ret[t2])

\* C10 witness: both callers hold the result of computePulseWidth on the same reading
C10_Witness ==
    \E t1, t2 \in Callers :
        /\ t1 # t2
        /\ Returned(t1, "computePulseWidth")
        /\ Returned(t2, "computePulseWidth")
        /\ frame[t1] = frame[t2]
        /\ ret[t1] = ret[t2]

=============================================================================
